---- MODULE Spec2Model ----
(***************************************************************************)
(* Options-trader core: the option-chain normaliser and its filters        *)
(* (src/core/options_chain.py), fed by the chain fetcher                   *)
(* (src/core/data_fetcher.py) and read by the scanner                      *)
(* (src/analysis/scanner.py).                                              *)
(*                                                                         *)
(* A pandas DataFrame is a record [cols, rows]: the set of its column      *)
(* names and the sequence of its rows, each row a function from cols to    *)
(* cell values.  One analysis pass holds the references scan_symbol holds:  *)
(* the fetched frame, the chain built from it, the latest filtered chain   *)
(* and the frame to_dataframe returned.  A pass ends when a call raises.   *)
(*                                                                         *)
(* Prices are whole (even) dollars so that (bid + ask) / 2 is exact, the   *)
(* implied volatility is a whole multiple of 100 %, and an expiration is   *)
(* the number of days between the fetch instant and the expiry.            *)
(*                                                                         *)
(* The calculators are exercised each under a specification of its own,    *)
(* which starts from the constructed object and the caller's inputs and    *)
(* applies its methods: VolSpec for VolatilityCalculator                   *)
(* (src/core/volatility.py), ScoreSpec for OpportunityScorer               *)
(* (src/analysis/scoring.py) and RiskSpec for RiskCalculator               *)
(* (src/analysis/risk.py), StrategySpec for SingleLegStrategy              *)
(* (src/strategies/single_leg.py) and LoggerSpec for TradeLogger           *)
(* (src/journal/trade_logger.py); ScanSpec runs scan_symbol as one call    *)
(* and hands its table to the strategy.  Floats are exact fractions or     *)
(* whole numbers of a fixed unit; rounding is not modelled.                *)
(***************************************************************************)
EXTENDS Integers, Sequences, FiniteSets, TLC

VARIABLES
    raw,        \* the vendor's concatenated chain, the table a caller holds
    raw_chain,  \* what get_options_chain returned: [some, df]
    chain,      \* the OptionsChain built first in the pass
    filtered,   \* the OptionsChain the latest filter call returned
    view,       \* the frame to_dataframe returned: [kind, of, df]
    last,       \* the last call made and how it ended
    calc,       \* the calculator a caller holds (volatility, scoring or risk)
    ret         \* the last call made on the calculator and what it returned

vars == <<raw, raw_chain, chain, filtered, view, last, calc, ret>>

\* ------------------------------------------------------------------ bounds
MaxRows == 2        \* rows of the vendor table

\* ------------------------------------------------------------- cell values
\* np.nan in a numeric column.
NaN == -1000000

IsNaN(x) == x = NaN

Add(a, b) == IF IsNaN(a) \/ IsNaN(b) THEN NaN ELSE a + b

Mul(a, k) == IF IsNaN(a) THEN NaN ELSE a * k

\* x / 2 on the even values the model draws.
Half(a) == IF IsNaN(a) THEN NaN ELSE a \div 2

\* Comparisons with NaN are False in pandas.
Gt(a, b) == ~IsNaN(a) /\ ~IsNaN(b) /\ a > b

Ge(a, b) == ~IsNaN(a) /\ ~IsNaN(b) /\ a >= b

Le(a, b) == ~IsNaN(a) /\ ~IsNaN(b) /\ a <= b

\* Series.fillna(other), one cell.
FillNa(x, other) == IF IsNaN(x) THEN other ELSE x

\* volume / open_interest as an exact fraction; 0/0 stands for NaN.
NaNRatio == [num |-> 0, den |-> 0]

Ratio(v, oi) == IF IsNaN(v) \/ IsNaN(oi) THEN NaNRatio ELSE [num |-> v, den |-> oi]

\* ------------------------------------------------------------- DataFrames
EmptyFrame == [cols |-> {}, rows |-> <<>>]

\* DataFrame.empty
IsEmpty(df) == Len(df.rows) = 0

\* Python's None where a frame is expected.
None == [cols |-> {}, rows |-> <<>>, none |-> TRUE]

\* raw_data is None
IsNone(x) == "none" \in DOMAIN x

\* The index of a frame: its row positions.
Index(df) == 1..Len(df.rows)

\* df[mask], mask a boolean Series over the index: a new frame with the same
\* columns and the rows the mask marks, in their order.
Select(df, mask) ==
    LET rows == df.rows
        marked == SelectSeq([i \in 1..Len(rows) |-> i], LAMBDA i : mask[i])
    IN  [cols |-> df.cols, rows |-> [k \in 1..Len(marked) |-> rows[marked[k]]]]

\* df[[c for c in keep]]
Project(df, keep) ==
    LET rows == df.rows
    IN  [cols |-> keep,
         rows |-> [i \in 1..Len(rows) |-> [c \in keep |-> rows[i][c]]]]

\* df[name] = values, a Series over the index
SetColumn(df, name, values) ==
    LET rows == df.rows
        cols == df.cols \cup {name}
    IN  [cols |-> cols,
         rows |-> [i \in 1..Len(rows) |->
                     [c \in cols |-> IF c = name THEN values[i] ELSE rows[i][c]]]]

\* df.rename(columns=map) for the keys in `keys`
Rename(df, keys, map) ==
    LET new(c) == IF c \in keys THEN map[c] ELSE c
        rows == df.rows
        cols == df.cols
        newcols == {new(c) : c \in cols}
        old == [c2 \in newcols |-> CHOOSE c \in cols : new(c) = c2]
    IN  [cols |-> newcols,
         rows |-> [i \in 1..Len(rows) |-> [c2 \in newcols |-> rows[i][old[c2]]]]]

\* ------------------------------------------------------- OptionsChain._process
column_mapping ==
    [k \in {"strike", "lastPrice", "bid", "ask", "volume", "openInterest",
            "impliedVolatility", "inTheMoney", "contractSymbol", "lastTradeDate"} |->
        CASE k = "strike" -> "strike"
          [] k = "lastPrice" -> "mid_price"
          [] k = "bid" -> "bid"
          [] k = "ask" -> "ask"
          [] k = "volume" -> "volume"
          [] k = "openInterest" -> "open_interest"
          [] k = "impliedVolatility" -> "iv"
          [] k = "inTheMoney" -> "itm"
          [] k = "contractSymbol" -> "contract_symbol"
          [] k = "lastTradeDate" -> "last_trade_date"]

\* rename_map: the vendor keys present in the frame.
rename_map(df) == {k \in DOMAIN column_mapping : k \in df.cols}

\* cols_to_keep: evaluated on the frame AFTER the rename, so a key is kept only
\* when a column still carries the vendor name, i.e. when the rename left it alone.
cols_to_keep(renamed) ==
    {"expiration", "dte", "option_type"}
        \cup {column_mapping[k] : k \in {k \in DOMAIN column_mapping : k \in renamed.cols}}

\* df['mid_price'] = (bid + ask) / 2, then fillna(df.get('lastPrice', df['mid_price']))
MidPrice(df, r) ==
    LET m == Half(Add(r["bid"], r["ask"]))
    IN  FillNa(m, IF "lastPrice" \in df.cols THEN r["lastPrice"] ELSE m)

WithMidPrice(df) ==
    IF {"bid", "ask"} \subseteq df.cols
    THEN SetColumn(df, "mid_price", [i \in Index(df) |-> MidPrice(df, df.rows[i])])
    ELSE df

WithIvPct(df) ==
    IF "iv" \in df.cols
    THEN SetColumn(df, "iv_pct", [i \in Index(df) |-> Mul(df.rows[i]["iv"], 100)])
    ELSE SetColumn(df, "iv_pct", [i \in Index(df) |-> NaN])

\* The premium column is computed from "ask", else from "mid_price".
PremiumSource(df) == IF "ask" \in df.cols THEN "ask" ELSE "mid_price"

WithPremium(df) ==
    SetColumn(df, "premium",
              [i \in Index(df) |-> Mul(df.rows[i][PremiumSource(df)], 100)])

PositivePremiumGe(r) == Ge(r["premium"], 0)

\* df[df['premium'] > 0]
PositivePremium(r) == Gt(r["premium"], 0)

\* np.where(open_interest > 0, volume / open_interest, np.nan), one row
LiquidityRatio(r) ==
    IF Gt(r["open_interest"], 0) THEN Ratio(r["volume"], r["open_interest"])
    ELSE NaNRatio

WithLiquidityRatio(df) ==
    IF "open_interest" \in df.cols
    THEN SetColumn(df, "liquidity_ratio", [i \in Index(df) |-> LiquidityRatio(df.rows[i])])
    ELSE SetColumn(df, "liquidity_ratio", [i \in Index(df) |-> NaNRatio])

\* The columns _process reads without a guard; a missing one is a KeyError.
ProcessKeyError(kept) ==
    \/ "strike" \notin kept.cols
    \/ "dte" \notin kept.cols
    \/ PremiumSource(WithMidPrice(kept)) \notin WithMidPrice(kept).cols
    \/ ("open_interest" \in kept.cols /\ "volume" \notin kept.cols)

\* _process: [err, df]
Process(raw_data) ==
    LET renamed == Rename(raw_data, rename_map(raw_data), column_mapping)
        kept == Project(renamed, cols_to_keep(renamed) \cap renamed.cols)
        priced == WithPremium(WithIvPct(WithMidPrice(kept)))
    IN  IF ProcessKeyError(kept)
        THEN [err |-> "KeyError", df |-> EmptyFrame]
        ELSE [err |-> "none",
              df |-> WithLiquidityRatio(
                        Select(priced,
                               [i \in Index(priced) |-> PositivePremium(priced.rows[i])]))]

\* ------------------------------------------------------ OptionsChain.__init__
NoChain == [raw_data |-> EmptyFrame, processed |-> EmptyFrame]

\* OptionsChain(raw_data): [err, chain]; raw_data is kept as raw_data.copy().
OptionsChain_unguarded(raw_data) ==
    LET p == Process(raw_data)
    IN  IF p.err # "none"
        THEN [err |-> p.err, chain |-> NoChain]
        ELSE [err |-> "none",
              chain |-> [raw_data |-> raw_data, processed |-> p.df]]

OptionsChain(raw_data) ==
    IF IsNone(raw_data) \/ IsEmpty(raw_data)
    THEN [err |-> "ValueError", chain |-> NoChain]
    ELSE LET p == Process(raw_data)
         IN  IF p.err # "none"
             THEN [err |-> p.err, chain |-> NoChain]
             ELSE [err |-> "none",
                   chain |-> [raw_data |-> raw_data, processed |-> p.df]]

\* ----------------------------------------------------- OptionsChain filters
\* Each filter is OptionsChain(self.processed[mask]): the selection is handed to
\* the constructor, which normalises it again.  Result: [err, chain].
InDteRange(r, min_dte, max_dte) == r["dte"] >= min_dte /\ r["dte"] <= max_dte

filter_by_dte(self, min_dte, max_dte) ==
    LET df == self.processed
    IN  OptionsChain(Select(df, [i \in Index(df) |-> InDteRange(df.rows[i], min_dte, max_dte)]))

WithinPremium(r, max_premium) == Le(r["premium"], max_premium)

filter_by_premium_or_self(self, max_premium) ==
    LET df == self.processed
        kept == Select(df, [i \in Index(df) |-> WithinPremium(df.rows[i], max_premium)])
    IN  IF IsEmpty(kept) THEN [err |-> "none", chain |-> self] ELSE OptionsChain(kept)

filter_by_premium(self, max_premium) ==
    LET df == self.processed
    IN  OptionsChain(Select(df, [i \in Index(df) |-> WithinPremium(df.rows[i], max_premium)]))

filter_by_volume(self, min_volume) ==
    LET df == self.processed
    IN  IF "volume" \notin df.cols
        THEN OptionsChain(df)
        ELSE OptionsChain(Select(df, [i \in Index(df) |-> Ge(df.rows[i]["volume"], min_volume)]))

filter_by_oi(self, min_oi) ==
    LET df == self.processed
    IN  IF "open_interest" \notin df.cols
        THEN OptionsChain(df)
        ELSE OptionsChain(Select(df, [i \in Index(df) |-> Ge(df.rows[i]["open_interest"], min_oi)]))

\* str.lower() on the sides the callers pass.
Lower(s) ==
    CASE s = "CALL" -> "call"
      [] s = "Call" -> "call"
      [] s = "PUT" -> "put"
      [] s = "Put" -> "put"
      [] OTHER -> s

filter_by_type(self, option_type) ==
    LET df == self.processed
    IN  OptionsChain(Select(df, [i \in Index(df) |->
                                    df.rows[i]["option_type"] = Lower(option_type)]))

\* to_dataframe: [df, shared]; self.processed.copy() shares nothing with self.
to_dataframe_no_copy(self) == [df |-> self.processed, shared |-> TRUE]

to_dataframe(self) == [df |-> self.processed, shared |-> FALSE]

\* ------------------------------------------------- OptionsScanner.scan_symbol
\* Two filter calls in a row; the second is made only if the first returned.
dte_then_premium(self, min_dte, max_dte, max_premium) ==
    LET first == filter_by_dte(self, min_dte, max_dte)
    IN  IF first.err # "none" THEN first
        ELSE filter_by_premium(first.chain, max_premium)

\* opportunities['symbol'] = symbol
WithSymbol(df) == SetColumn(df, "symbol", [i \in Index(df) |-> "SYM"])

\* ------------------------------------------------ DataFetcher.get_options_chain
NotExpiredGe(r) == r["dte"] >= 0

\* df[df['dte'] > 0]
NotExpired(r) == r["dte"] > 0

\* calls['option_type'] = 'call', puts['option_type'] = 'put': the fetcher writes
\* the side as a lower-case literal; the side a vendor row carries here only
\* tells which of the vendor's two tables it came in.
WithSide(vendor) ==
    SetColumn(vendor, "option_type",
              [i \in Index(vendor) |-> Lower(vendor.rows[i]["option_type"])])

\* The concatenated vendor frame gets its dte column and loses the expired rows.
\* (expiration - now).days is the expiration's day offset itself.
get_options_chain(vendor) ==
    LET sided == WithSide(vendor)
        df == SetColumn(sided, "dte", [i \in Index(sided) |-> sided.rows[i]["expiration"]])
    IN  Select(df, [i \in Index(df) |-> NotExpired(df.rows[i])])

\* ------------------------------------------------------------------ inputs
\* A liquid, cheap call expiring in 10 days, and the rows that differ from it:
\* expiring today, priced at a negative, zero or high ask, without a quote, and
\* an illiquid put without implied volatility, and a call whose side is stored
\* in upper case.
BaseRow ==
    [strike |-> 100, expiration |-> 10, dte |-> 10, option_type |-> "call",
     lastPrice |-> 2, bid |-> 2, ask |-> 2, volume |-> 200,
     openInterest |-> 200, impliedVolatility |-> 1]

RawRows ==
    {BaseRow}
      \cup {[BaseRow EXCEPT !.expiration = 0, !.dte = 0]}
      \cup {[BaseRow EXCEPT !.ask = a] : a \in {0 - 2, 0, 4}}
      \cup {[BaseRow EXCEPT !.bid = NaN, !.ask = NaN]}
      \cup {[BaseRow EXCEPT !.volume = 50, !.openInterest = 0,
                             !.impliedVolatility = NaN, !.option_type = "put"]}
      \cup {[BaseRow EXCEPT !.option_type = "CALL"]}

VendorCols == DOMAIN BaseRow

\* The column sets a vendor frame comes with: complete, or lacking an optional group.
RawColumnSets ==
    {VendorCols,
     VendorCols \ {"openInterest", "impliedVolatility"},
     VendorCols \ {"bid", "ask"}}

RECURSIVE SeqsUpTo(_, _)
SeqsUpTo(S, n) ==
    IF n = 0 THEN {<<>>}
    ELSE LET shorter == SeqsUpTo(S, n - 1)
         IN  shorter \cup {Append(q, x) : q \in shorter, x \in S}

RawFrames ==
    {Project([cols |-> VendorCols, rows |-> rows], cols) :
        rows \in SeqsUpTo(RawRows, MaxRows), cols \in RawColumnSets}

DteRanges == {<<0, 45>>, <<7, 45>>}

PremiumCeilings == {200}

ScanCeilings == {200, 400}

VolumeFloors == {100}

OiFloors == {100}

OptionTypes == {"call", "PUT"}

\* ------------------------------------------------------------------- state
\* An OptionsChain object: its two frames, and how it came to be.
NoObject ==
    [live |-> FALSE, raw_data |-> EmptyFrame, processed |-> EmptyFrame,
     fetched |-> FALSE, op |-> "none", args |-> <<>>]

Object(res, op, args, fetched) ==
    [live |-> TRUE, raw_data |-> res.chain.raw_data, processed |-> res.chain.processed,
     fetched |-> fetched, op |-> op, args |-> args]

NoCall == [op |-> "none", self |-> "none", args |-> <<>>, err |-> "none"]

NoView == [kind |-> "none", of |-> "none", df |-> EmptyFrame]

\* No calculator is held, and nothing was called on one.
NoCalc == [kind |-> "none"]

NoRet == [fn |-> "none"]

Init ==
    /\ raw \in RawFrames
    /\ raw_chain = [some |-> FALSE, df |-> EmptyFrame]
    /\ chain = NoObject
    /\ filtered = NoObject
    /\ view = NoView
    /\ last = NoCall
    /\ calc = NoCalc
    /\ ret = NoRet

\* The object a variable of the pass refers to.
Ref(v) == IF v = "chain" THEN chain ELSE filtered

\* The variable the next filter call is made on: scan_symbol chains each call
\* on the result of the one before, and restarts from `chain` in ScanFilters.
Latest == IF filtered.live THEN "filtered" ELSE "chain"

\* The pass goes on: nothing raised, and the scanner has not yet taken its frame.
Running == last.err = "none" /\ view.kind = "none"

\* DataFetcher.get_options_chain: None when the vendor lists nothing.
GetOptionsChain ==
    /\ Running
    /\ ~raw_chain.some /\ ~chain.live
    /\ IF IsEmpty(raw)
       THEN /\ last' = [NoCall EXCEPT !.op = "get_options_chain", !.err = "None"]
            /\ UNCHANGED raw_chain
       ELSE /\ raw_chain' = [some |-> TRUE, df |-> get_options_chain(raw)]
            /\ last' = [NoCall EXCEPT !.op = "get_options_chain"]
    /\ UNCHANGED <<raw, chain, filtered, view, calc, ret>>

\* What the caller hands to the constructor.
Argument(src) ==
    CASE src = "raw_chain" -> raw_chain.df
      [] src = "raw" -> raw
      [] src = "None" -> None

\* chain = OptionsChain(raw_chain), or OptionsChain(raw) by a caller with its own
\* table, or OptionsChain(None).
Construct(src) ==
    /\ Running
    /\ ~chain.live
    /\ src = "raw_chain" => raw_chain.some
    /\ LET res == OptionsChain(Argument(src))
       IN  /\ last' = [op |-> "OptionsChain", self |-> src, args |-> <<>>, err |-> res.err]
           /\ chain' = IF res.err = "none"
                       THEN Object(res, "OptionsChain", <<>>, src = "raw_chain")
                       ELSE chain
    /\ UNCHANGED <<raw, raw_chain, filtered, view, calc, ret>>

\* filtered = v.filter_by_...(args), res being what the call computes: the new
\* object is bound to `filtered`, or the call raises.
Returns(op, v, args, res) ==
    /\ last' = [op |-> op, self |-> v, args |-> args, err |-> res.err]
    /\ filtered' = IF res.err = "none" THEN Object(res, op, args, Ref(v).fetched)
                   ELSE filtered
    /\ UNCHANGED <<raw, raw_chain, chain, view, calc, ret>>

FilterByDte(v, min_dte, max_dte) ==
    /\ Running /\ Ref(v).live
    /\ Returns("filter_by_dte", v, <<min_dte, max_dte>>,
               filter_by_dte(Ref(v), min_dte, max_dte))

FilterByPremium(v, max_premium) ==
    /\ Running /\ Ref(v).live
    /\ Returns("filter_by_premium", v, <<max_premium>>,
               filter_by_premium(Ref(v), max_premium))

FilterByVolume(v, min_volume) ==
    /\ Running /\ Ref(v).live
    /\ Returns("filter_by_volume", v, <<min_volume>>,
               filter_by_volume(Ref(v), min_volume))

FilterByOi(v, min_oi) ==
    /\ Running /\ Ref(v).live
    /\ Returns("filter_by_oi", v, <<min_oi>>, filter_by_oi(Ref(v), min_oi))

FilterByType(v, option_type) ==
    /\ Running /\ Ref(v).live
    /\ Returns("filter_by_type", v, <<option_type>>,
               filter_by_type(Ref(v), option_type))

\* filtered = chain.filter_by_dte(min_dte, max_dte)
\* filtered = filtered.filter_by_premium(max_premium)
\* The first call that raises ends the pass.
ScanFilters(min_dte, max_dte, max_premium) ==
    /\ Running /\ chain.live
    /\ Returns("scan_filters", "chain", <<min_dte, max_dte, max_premium>>,
               dte_then_premium(chain, min_dte, max_dte, max_premium))

\* opportunities = v.to_dataframe(); opportunities['symbol'] = symbol
\* scan_symbol writes the column in place, into whatever frame it was handed
\* (an empty frame makes it return None before that).
TakeOpportunities(v) ==
    /\ Running /\ Ref(v).live
    /\ LET got == to_dataframe(Ref(v))
       IN  /\ ~IsEmpty(got.df)
           /\ view' = [kind |-> "opportunities", of |-> v, df |-> WithSymbol(got.df)]
           /\ chain' = IF got.shared /\ v = "chain"
                       THEN [chain EXCEPT !.processed = WithSymbol(got.df)] ELSE chain
           /\ filtered' = IF got.shared /\ v = "filtered"
                          THEN [filtered EXCEPT !.processed = WithSymbol(got.df)]
                          ELSE filtered
    /\ last' = [NoCall EXCEPT !.op = "to_dataframe", !.self = v]
    /\ UNCHANGED <<raw, raw_chain, calc, ret>>

Next ==
    \/ GetOptionsChain
    \/ \E src \in {"raw", "raw_chain", "None"} : Construct(src)
    \/ \E v \in {Latest} :
        \/ \E d \in DteRanges : FilterByDte(v, d[1], d[2])
        \/ \E m \in PremiumCeilings : FilterByPremium(v, m)
        \/ \E n \in VolumeFloors : FilterByVolume(v, n)
        \/ \E n \in OiFloors : FilterByOi(v, n)
        \/ \E t \in OptionTypes : FilterByType(v, t)
        \/ TakeOpportunities(v)
    \/ \E d \in DteRanges, m \in ScanCeilings : ScanFilters(d[1], d[2], m)

Spec == Init /\ [][Next]_vars

\* =============================================== VolatilityCalculator
\* The calculator holds the price history.  The rolling standard deviation of
\* the log returns is not computed here: `hv` is the column of annualised
\* rolling-HV cells, one per history row (NaN where pandas has no value), and
\* rolling(window) blanks the rows before the first full window.
MaxHistory == 3         \* rows of the price history

data_points_default == 2    \* calculate_iv_rank's default data_points, scaled

\* A float result as an exact fraction num/den, den > 0; NaNRatio is nan.
Frac(n, d) == [num |-> n, den |-> d]

Whole(n) == Frac(n, 1)

IsNaNFrac(x) == x.den = 0

FracLt(a, b) == ~IsNaNFrac(a) /\ ~IsNaNFrac(b) /\ a.num * b.den < b.num * a.den

FracEq(a, b) == ~IsNaNFrac(a) /\ ~IsNaNFrac(b) /\ a.num * b.den = b.num * a.den

\* np.clip(x, lo, hi) = minimum(maximum(x, lo), hi); nan stays nan.
Clip(x, lo, hi) ==
    IF IsNaNFrac(x) THEN x
    ELSE IF FracLt(x, Whole(lo)) THEN Whole(lo)
    ELSE IF FracLt(Whole(hi), x) THEN Whole(hi)
    ELSE x

\* series.rolling(window=lookback_period).std(): no value on the first
\* lookback_period rows (row 1 has no return, a window needs lookback_period returns).
rolling_hv(self, lookback_period) ==
    [i \in 1..Len(self.hv) |-> IF i <= lookback_period THEN NaN ELSE self.hv[i]]

\* series.iloc[-n:]
ILocLast(series, n) ==
    IF Len(series) <= n THEN series
    ELSE SubSeq(series, Len(series) - n + 1, Len(series))

\* series.dropna()
DropNa(series) == SelectSeq(series, LAMBDA x : ~IsNaN(x))

SeriesMin(series) ==
    CHOOSE x \in {series[i] : i \in 1..Len(series)} :
        \A j \in 1..Len(series) : x <= series[j]

SeriesMax(series) ==
    CHOOSE x \in {series[i] : i \in 1..Len(series)} :
        \A j \in 1..Len(series) : x >= series[j]

\* (hv_history < current_iv).sum()
CountBelow(series, current_iv) ==
    Cardinality({i \in 1..Len(series) : Gt(current_iv, series[i])})

\* ((current_iv - iv_low) / (iv_high - iv_low)) * 100
RawIvRank(current_iv, iv_low, iv_high) ==
    IF IsNaN(current_iv) THEN NaNRatio
    ELSE Frac((current_iv - iv_low) * 100, iv_high - iv_low)

\* calculate_iv_rank: <<iv_rank, iv_percentile>>
calculate_iv_rank(self, current_iv, lookback_period, data_points) ==
    LET hv_history == DropNa(ILocLast(rolling_hv(self, lookback_period), data_points))
    IN  IF Len(hv_history) = 0
        THEN <<Whole(50), Whole(50)>>
        ELSE LET iv_low == SeriesMin(hv_history)
                 iv_high == SeriesMax(hv_history)
                 iv_rank == IF iv_high = iv_low THEN Whole(50)
                            ELSE RawIvRank(current_iv, iv_low, iv_high)
                 iv_percentile ==
                     Frac(CountBelow(hv_history, current_iv) * 100, Len(hv_history))
             IN  <<Clip(iv_rank, 0, 100), Clip(iv_percentile, 0, 100)>>

\* is_iv_expensive: [flag, reason, iv_rank]; the reason text quotes iv_rank.
is_iv_expensive(self, current_iv, lookback_period) ==
    LET got == calculate_iv_rank(self, current_iv, lookback_period, data_points_default)
        iv_rank == got[1]
    IN  IF FracLt(Whole(75), iv_rank)
        THEN [flag |-> TRUE, reason |-> "IV is very high", iv_rank |-> iv_rank]
        ELSE IF FracLt(Whole(50), iv_rank)
        THEN [flag |-> FALSE, reason |-> "IV is elevated", iv_rank |-> iv_rank]
        ELSE [flag |-> FALSE, reason |-> "IV is relatively low", iv_rank |-> iv_rank]

\* float(x) of a price or volatility argument
ToFrac(x) == IF IsNaN(x) THEN NaNRatio ELSE Whole(x)

\* np.sqrt(dte / 365) in thousandths, rounded down; nan below zero.
SqrtYearFraction(dte) ==
    IF dte < 0 THEN NaN
    ELSE CHOOSE r \in 0..2000 :
            /\ r * r <= (dte * 1000000) \div 365
            /\ (r + 1) * (r + 1) > (dte * 1000000) \div 365

\* current_price * (iv / 100) * np.sqrt(dte / 365), in 1/100000 dollar
ExpectedMove(current_price, iv, dte) ==
    IF IsNaN(current_price) \/ IsNaN(iv) \/ IsNaN(SqrtYearFraction(dte)) THEN NaNRatio
    ELSE Frac(current_price * iv * SqrtYearFraction(dte), 100000)

FracAdd(a, b) ==
    IF IsNaNFrac(a) \/ IsNaNFrac(b) THEN NaNRatio
    ELSE Frac(a.num * b.den + b.num * a.den, a.den * b.den)

FracSub(a, b) ==
    IF IsNaNFrac(a) \/ IsNaNFrac(b) THEN NaNRatio
    ELSE Frac(a.num * b.den - b.num * a.den, a.den * b.den)

calculate_expected_move_no_guard(current_price, iv, dte) ==
    LET expected_move == ExpectedMove(current_price, iv, dte)
    IN  <<expected_move,
          FracSub(ToFrac(current_price), expected_move),
          FracAdd(ToFrac(current_price), expected_move)>>

\* calculate_expected_move: <<expected_move, lower_bound, upper_bound>>
calculate_expected_move(current_price, iv, dte) ==
    IF dte <= 0
    THEN <<Whole(0), ToFrac(current_price), ToFrac(current_price)>>
    ELSE LET expected_move == ExpectedMove(current_price, iv, dte)
         IN  <<expected_move,
               FracSub(ToFrac(current_price), expected_move),
               FracAdd(ToFrac(current_price), expected_move)>>

\* ----------------------------------------------------- volatility inputs
\* Rolling-HV cells, in percent.
HvValues == {NaN, 10, 30}

\* Current implied volatilities, in percent: below, inside, on the edges of
\* and above the histories' ranges, and nan.
CurrentIvs == {NaN, 0, 15, 20, 25, 30, 40}

LookbackPeriods == {1, 2}

DataPoints == {2, 3}

Prices == {NaN, 0, 100}

MoveIvs == {NaN, 0 - 20, 0, 20}

Dtes == {0 - 1, 0, 1, 30}

Histories == SeqsUpTo(HvValues, MaxHistory) \ {<<>>}

\* ---------------------------------------------------- volatility actions
Called(fn, args, value) ==
    /\ ret' = [fn |-> fn, args |-> args, value |-> value]
    /\ UNCHANGED <<raw, raw_chain, chain, filtered, view, last, calc>>

CalculateIvRank(current_iv, lookback_period, data_points) ==
    /\ calc.kind = "volatility"
    /\ Called("calculate_iv_rank", <<current_iv, lookback_period, data_points>>,
              calculate_iv_rank(calc, current_iv, lookback_period, data_points))

IsIvExpensive(current_iv, lookback_period) ==
    /\ calc.kind = "volatility"
    /\ Called("is_iv_expensive", <<current_iv, lookback_period>>,
              is_iv_expensive(calc, current_iv, lookback_period))

CalculateExpectedMove(current_price, iv, dte) ==
    /\ calc.kind = "volatility"
    /\ Called("calculate_expected_move", <<current_price, iv, dte>>,
              calculate_expected_move(current_price, iv, dte))

\* No chain is in play while a calculator is exercised.
NoPass ==
    /\ raw = EmptyFrame
    /\ raw_chain = [some |-> FALSE, df |-> EmptyFrame]
    /\ chain = NoObject
    /\ filtered = NoObject
    /\ view = NoView
    /\ last = NoCall

\* VolatilityCalculator(historical_data) on a history with rows.
VolInit ==
    /\ NoPass
    /\ calc \in {[kind |-> "volatility", hv |-> h] : h \in Histories}
    /\ ret = NoRet

VolNext ==
    \/ \E iv \in CurrentIvs, w \in LookbackPeriods, n \in DataPoints :
          CalculateIvRank(iv, w, n)
    \/ \E iv \in CurrentIvs, w \in LookbackPeriods : IsIvExpensive(iv, w)
    \/ \E p \in Prices, iv \in MoveIvs, d \in Dtes : CalculateExpectedMove(p, iv, d)

VolSpec == VolInit /\ [][VolNext]_vars

\* =================================================== OpportunityScorer
\* Scores are whole numbers of 1/ScoreUnit point, so that iv_rank * 0.5 and
\* (volume / 100 + oi / 100) / 2 are exact; a weight is a whole percentage, so
\* total_score is a whole number of 1/WeightedUnit point.
MaxScored == 3          \* rows of the table score_dataframe is given

ScoreUnit == 200

WeightedUnit == ScoreUnit * 100

Points(p) == p * ScoreUnit

weights_swapped ==
    [iv_rank |-> 20, liquidity |-> 25, dte |-> 15, premium |-> 15,
     volume_surge |-> 15, trend |-> 10]

\* self.weights, in percent
weights ==
    [iv_rank |-> 25, liquidity |-> 20, dte |-> 15, premium |-> 15,
     volume_surge |-> 15, trend |-> 10]

\* row.get(name, default), dict.get(name, default)
Get(row, name, default) == IF name \in DOMAIN row THEN row[name] ELSE default

\* Python's min(a, b) and max(a, b): b only when b < a (b > a); never for nan b.
PyMin(a, b) == IF Gt(a, b) THEN b ELSE a

PyMax(a, b) == IF Gt(b, a) THEN b ELSE a

score_iv_rank(snapshot) ==
    IF "volatility" \notin DOMAIN snapshot THEN Points(50)
    ELSE LET iv_rank == Get(snapshot["volatility"], "iv_rank", 50)
         IN  IF Gt(30, iv_rank) THEN Points(80) + Points(30 - iv_rank)
             ELSE IF Gt(50, iv_rank) THEN Points(70) - Points(iv_rank - 30)
             ELSE PyMax(Points(10), Points(50) - (iv_rank - 50) * (ScoreUnit \div 2))

\* x / 100, in score units
Per100(x) == IF IsNaN(x) THEN NaN ELSE (x * ScoreUnit) \div 100

score_liquidity_no_floor(row) ==
    LET volume == Get(row, "volume", 0)
        oi == Get(row, "open_interest", 0)
    IN  (PyMin(Points(100), Per100(volume)) + PyMin(Points(100), Per100(oi))) \div 2

score_liquidity(row) ==
    LET volume == Get(row, "volume", 0)
        oi == Get(row, "open_interest", 0)
    IN  IF Gt(100, volume) \/ Gt(100, oi) THEN 0
        ELSE LET volume_score == PyMin(Points(100), Per100(volume))
                 oi_score == PyMin(Points(100), Per100(oi))
             IN  (volume_score + oi_score) \div 2

score_dte(row) ==
    LET dte == Get(row, "dte", 0)
    IN  IF Gt(7, dte) THEN Points(20)
        ELSE IF Le(7, dte) /\ Le(dte, 14) THEN Points(90)
        ELSE IF Gt(dte, 14) /\ Le(dte, 30) THEN Points(100)
        ELSE IF Gt(dte, 30) /\ Le(dte, 45) THEN Points(70)
        ELSE Points(40)

score_premium(row) ==
    LET premium == Get(row, "premium", 0)
    IN  IF Gt(20, premium) THEN Points(30)
        ELSE IF Le(premium, 100) THEN Points(100)
        ELSE IF Le(premium, 200) THEN Points(70)
        ELSE Points(30)

score_volume_surge(row) ==
    LET ratio == Get(row, "liquidity_ratio", Whole(0))
    IN  IF FracLt(Whole(2), ratio) THEN Points(100)
        ELSE IF FracLt(Whole(1), ratio) THEN Points(70)
        ELSE IF FracLt(Frac(1, 2), ratio) THEN Points(50)
        ELSE Points(30)

\* score in 1/WeightedUnit point
get_grade(score) ==
    IF score >= 85 * WeightedUnit THEN "A"
    ELSE IF score >= 70 * WeightedUnit THEN "B"
    ELSE IF score >= 55 * WeightedUnit THEN "C"
    ELSE IF score >= 40 * WeightedUnit THEN "D"
    ELSE "F"

\* sum(scores[k + '_score'] * v for k, v in self.weights.items())
WeightedSum(scores) ==
    scores["iv_rank_score"] * weights["iv_rank"]
      + scores["liquidity_score"] * weights["liquidity"]
      + scores["dte_score"] * weights["dte"]
      + scores["premium_score"] * weights["premium"]
      + scores["volume_surge_score"] * weights["volume_surge"]
      + scores["trend_score"] * weights["trend"]

SubScores(row, snapshot) ==
    [iv_rank_score |-> score_iv_rank(snapshot),
     liquidity_score |-> score_liquidity(row),
     dte_score |-> score_dte(row),
     premium_score |-> score_premium(row),
     volume_surge_score |-> score_volume_surge(row),
     trend_score |-> Points(50)]

score_opportunity(row, snapshot) ==
    LET scores == SubScores(row, snapshot)
        total_score == WeightedSum(scores)
    IN  [c \in DOMAIN scores \cup {"total_score", "grade"} |->
            CASE c = "total_score" -> total_score
              [] c = "grade" -> get_grade(total_score)
              [] OTHER -> scores[c]]

\* df.iterrows() with score_opportunity on each row, then
\* pd.concat([df.reset_index(drop=True), scores_df], axis=1): row i and its scores.
Scored(df, snapshot) ==
    [i \in Index(df) |->
        LET row == df.rows[i]
            scores == score_opportunity(row, snapshot)
        IN  [c \in DOMAIN row \cup DOMAIN scores |->
                IF c \in DOMAIN scores THEN scores[c] ELSE row[c]]]

\* result.sort_values('total_score', ascending=False) with the default
\* kind='quicksort', which is not a stable sort: the orders of the index it may
\* return are all those that put total_score in descending order.
SortOrders(rows) ==
    {order \in Permutations(1..Len(rows)) :
        \A k \in 1..(Len(rows) - 1) :
            rows[order[k]]["total_score"] >= rows[order[k + 1]]["total_score"]}

\* score_dataframe: [df, index], index[k] being the position in the input of
\* the row returned k-th; `order` is the order the sort came up with.
score_dataframe(df, snapshot, order) ==
    IF IsEmpty(df) THEN [df |-> df, index |-> <<>>]
    ELSE LET rows == Scored(df, snapshot)
         IN  [df |-> [cols |-> DOMAIN rows[1],
                      rows |-> [k \in 1..Len(rows) |-> rows[order[k]]]],
              index |-> order]

\* ------------------------------------------------------- scoring inputs
ScoreRow(strike, volume, oi, dte, premium, ratio) ==
    [strike |-> strike, volume |-> volume, open_interest |-> oi, dte |-> dte,
     premium |-> premium, liquidity_ratio |-> ratio]

\* One contract per combination of the values on either side of each threshold.
SingleRows ==
    {ScoreRow(100, v, oi, d, p, q) :
        v \in {NaN, 50, 100, 5000, 20000},
        oi \in {NaN, 50, 100, 20000},
        d \in {6, 7, 15, 31, 46},
        p \in {19, 20, 101, 201},
        q \in {NaNRatio, Frac(1, 2), Frac(1, 1), Frac(3, 2), Frac(3, 1)}}

\* Two contracts that score the same and one that scores lower.
TiedRows ==
    {ScoreRow(100, 5000, 5000, 15, 100, Frac(1, 1)),
     ScoreRow(105, 5000, 5000, 15, 100, Frac(1, 1)),
     ScoreRow(110, 5000, 5000, 15, 201, Frac(1, 1))}

ScoreCols == DOMAIN ScoreRow(0, 0, 0, 0, 0, Whole(0))

\* The tables handed to the scorer, with and without an open-interest column.
Opportunities ==
    {Project([cols |-> ScoreCols, rows |-> rows], ScoreCols \ drop) :
        rows \in {<<r>> : r \in SingleRows} \cup SeqsUpTo(TiedRows, MaxScored),
        drop \in {{}, {"open_interest"}}}

\* Snapshots without a volatility summary, with one that has no iv_rank, and
\* with an iv_rank on either side of each threshold.
Snapshots ==
    {<<>>, [volatility |-> <<>>]}
        \cup {[volatility |-> [iv_rank |-> r]] : r \in {0, 9, 10, 29, 30, 49, 50, 100}}

\* ------------------------------------------------------ scoring actions
ScoreOpportunity(i) ==
    /\ calc.kind = "scorer"
    /\ i \in Index(calc.opportunities)
    /\ Called("score_opportunity", <<i>>,
              score_opportunity(calc.opportunities.rows[i], calc.snapshot))

ScoreDataframe ==
    /\ calc.kind = "scorer"
    /\ \E order \in SortOrders(Scored(calc.opportunities, calc.snapshot)) :
          Called("score_dataframe", <<>>,
                 score_dataframe(calc.opportunities, calc.snapshot, order))

\* OpportunityScorer(), and the caller's opportunities table and snapshot.
ScoreInit ==
    /\ NoPass
    /\ calc \in {[kind |-> "scorer", opportunities |-> df, snapshot |-> snapshot] :
                    df \in Opportunities, snapshot \in Snapshots}
    /\ ret = NoRet

ScoreNext ==
    \/ \E i \in 1..MaxScored : ScoreOpportunity(i)
    \/ ScoreDataframe

ScoreSpec == ScoreInit /\ [][ScoreNext]_vars

\* ======================================================= RiskCalculator
\* Account values are whole dollars; a premium is in cents of a dollar per
\* share, so that premium * 100 (dollars per contract) is that same number of
\* dollars; the fractions of the configuration are whole percentages.

\* config.risk_config = RiskConfig(): the attributes the dataclass declares.
risk_config ==
    [max_portfolio_risk |-> 2, max_position_size |-> 10, max_sector_exposure |-> 30,
     stop_loss_pct |-> 50, profit_target_pct |-> 50]

\* A configuration object a caller passes that also carries max_premium (cents).
ConfigWithMaxPremium ==
    [a \in DOMAIN risk_config \cup {"max_premium"} |->
        IF a = "max_premium" THEN 20000 ELSE risk_config[a]]

IntOfQuotient_up(n, d) == (n + d - 1) \div d

\* int(n / d) for d # 0: the quotient cut towards zero.
IntOfQuotient(n, d) ==
    LET an == IF n < 0 THEN 0 - n ELSE n
        ad == IF d < 0 THEN 0 - d ELSE d
    IN  IF (n < 0) = (d < 0) THEN an \div ad ELSE 0 - (an \div ad)

NoTradeRisk == [max_loss |-> 0]

\* calculate_long_option_risk: [err, risk], risk the TradeRisk returned
\* (warnings <<>> standing for None).
calculate_long_option_risk(self, premium, contracts) ==
    LET total_premium == premium * contracts
        max_loss == total_premium
        max_gain == total_premium * 3
        rr_ratio == IF max_gain > 0 THEN Frac(max_loss, max_gain) ELSE Whole(0)
        max_portfolio_risk == self.config["max_portfolio_risk"]
        recommended_contracts ==
            PyMax(1, IntOfQuotient(self.account_value * max_portfolio_risk, 100 * premium))
        account_risk_pct == Frac(total_premium * 100, self.account_value)
        over_risk == FracLt(Whole(max_portfolio_risk), account_risk_pct)
        risk_warning == IF over_risk THEN <<"Position risk exceeds max">> ELSE <<>>
    IN  IF premium = 0 \/ self.account_value = 0
        THEN [err |-> "ZeroDivisionError", risk |-> NoTradeRisk]
        ELSE IF "max_premium" \notin DOMAIN self.config
        THEN [err |-> "AttributeError", risk |-> NoTradeRisk]
        ELSE [err |-> "none",
              risk |-> [max_loss |-> max_loss,
                        max_gain |-> max_gain,
                        break_even |-> premium,
                        risk_reward_ratio |-> rr_ratio,
                        position_size |-> recommended_contracts,
                        account_risk_pct |-> account_risk_pct,
                        recommended |-> ~over_risk,
                        warnings |-> IF premium > self.config["max_premium"]
                                     THEN Append(risk_warning, "Premium exceeds max")
                                     ELSE risk_warning]]

\* ---------------------------------------------------------- risk inputs
AccountValues == {1000, 5000, 10000, 100000}

RiskConfigs == {risk_config, ConfigWithMaxPremium}

\* Premiums in cents: none, 0.50, 1.50, 2.00, 2.50 and 250.00 dollars.
Premiums == {0, 50, 150, 200, 250, 25000}

Contracts == {1, 2, 3}

\* ---------------------------------------------------------- risk actions
CalculateLongOptionRisk(premium, contracts) ==
    /\ calc.kind = "risk"
    /\ LET res == calculate_long_option_risk(calc, premium, contracts)
       IN  ret' = [fn |-> "calculate_long_option_risk", args |-> <<premium, contracts>>,
                   err |-> res.err, value |-> res.risk]
    /\ UNCHANGED <<raw, raw_chain, chain, filtered, view, last, calc>>

\* RiskCalculator(account_value) or RiskCalculator(account_value, config)
RiskInit ==
    /\ NoPass
    /\ calc \in {[kind |-> "risk", account_value |-> a, config |-> c,
                  default_config |-> (c = risk_config)] :
                    a \in AccountValues, c \in RiskConfigs}
    /\ ret = NoRet

RiskNext ==
    \E premium \in Premiums, contracts \in Contracts :
        CalculateLongOptionRisk(premium, contracts)

RiskSpec == RiskInit /\ [][RiskNext]_vars

\* ------------------------------------------------------ SingleLegStrategy
\* Python's None where a number is expected, and where a text is expected.
Null == 0 - 2000000

NullText == "None"

\* return None
NoSignal == [none |-> TRUE]

Upper(s) ==
    CASE s = "call" -> "CALL"
      [] s = "put" -> "PUT"
      [] OTHER -> s

\* _generate_reasoning: [err, text]; text keeps the two commentary lines the
\* branches choose.  str.upper() of None raises AttributeError, the format
\* specs .2f, .1f and +.2f of None raise TypeError.
generate_reasoning(signal, snapshot) ==
    LET option_type == Upper(signal.option_type)
        strike == signal.strike
        iv_rank == signal.iv_rank
        quote == Get(snapshot, "quote", <<>>)
        price == Get(quote, "price", 0)
        change == Get(quote, "change_pct", 0)
        iv_line == IF iv_rank < 30 THEN "LOW"
                   ELSE IF iv_rank < 50 THEN "NORMAL" ELSE "HIGH"
        framing == IF option_type = "CALL"
                   THEN IF Gt(change, 0) THEN "momentum" ELSE "contrarian"
                   ELSE IF Gt(0, change) THEN "momentum" ELSE "contrarian"
    IN  IF signal.option_type = NullText
        THEN [err |-> "AttributeError", text |-> <<>>]
        ELSE IF Null \in {strike, signal.premium, price, iv_rank, change}
        THEN [err |-> "TypeError", text |-> <<>>]
        ELSE [err |-> "none", text |-> <<option_type, iv_line, framing>>]

\* _evaluate_opportunity: [err, signal]; now is what datetime.now() reads.
evaluate_opportunity(row, snapshot, now) ==
    LET premium == Get(row, "premium", 0)
        dte == Get(row, "dte", 0)
        iv == Get(row, "iv", 0)
        volume == Get(row, "volume", 0)
        oi == Get(row, "open_interest", 0)
        iv_rank == Get(Get(snapshot, "volatility", <<>>), "iv_rank", 50)
        quote == Get(snapshot, "quote", <<>>)
        current_price == Get(quote, "price", 0)
        signal == [symbol |-> Get(row, "symbol", NullText),
                   action |-> "buy",
                   option_type |-> Get(row, "option_type", NullText),
                   strike |-> Get(row, "strike", Null),
                   expiration |-> Get(row, "expiration", NullText),
                   dte |-> dte,
                   premium |-> premium,
                   contracts |-> 1,
                   current_price |-> current_price,
                   iv |-> IF Gt(1, iv) THEN Mul(iv, 100) ELSE iv,
                   iv_rank |-> iv_rank,
                   volume |-> volume,
                   open_interest |-> oi,
                   timestamp |-> now]
        reasoning == generate_reasoning(signal, snapshot)
    IN  IF Gt(premium, 200) THEN [err |-> "none", signal |-> NoSignal]
        ELSE IF Gt(7, dte) \/ Gt(dte, 45) THEN [err |-> "none", signal |-> NoSignal]
        ELSE IF Gt(100, volume) \/ Gt(100, oi) THEN [err |-> "none", signal |-> NoSignal]
        ELSE IF current_price = 0 THEN [err |-> "none", signal |-> NoSignal]
        ELSE IF reasoning.err # "none" THEN [err |-> reasoning.err, signal |-> NoSignal]
        ELSE [err |-> "none",
              signal |-> [f \in DOMAIN signal \cup {"reasoning"} |->
                             IF f = "reasoning" THEN reasoning.text ELSE signal[f]]]

Signalled(result) == ~IsNone(result.signal)

\* analyze: [err, signals]; an error raised for one row ends the loop.
analyze(data, now) ==
    LET opportunities == Get(data, "opportunities", None)
        snapshot == Get(data, "snapshot", <<>>)
        results == [i \in Index(opportunities) |->
                       evaluate_opportunity(opportunities.rows[i], snapshot, now)]
        raised == {i \in Index(opportunities) : results[i].err # "none"}
        first == CHOOSE i \in raised : \A j \in raised : i <= j
        kept == SelectSeq(results, Signalled)
    IN  IF IsNone(opportunities) \/ IsEmpty(opportunities)
        THEN [err |-> "none", signals |-> <<>>]
        ELSE IF raised # {}
        THEN [err |-> results[first].err, signals |-> <<>>]
        ELSE [err |-> "none", signals |-> [i \in 1..Len(kept) |-> kept[i].signal]]

get_entry_signal_last(data, now) ==
    LET analysis == analyze(data, now)
    IN  IF analysis.signals = <<>>
        THEN [err |-> analysis.err, signal |-> NoSignal]
        ELSE [err |-> "none", signal |-> analysis.signals[Len(analysis.signals)]]

\* get_entry_signal: [err, signal]
get_entry_signal(data, now) ==
    LET analysis == analyze(data, now)
    IN  IF analysis.signals = <<>>
        THEN [err |-> analysis.err, signal |-> NoSignal]
        ELSE [err |-> "none", signal |-> analysis.signals[1]]

\* P&L% of a position, exact.
PnlPct(entry_price, current_price) ==
    Frac((current_price - entry_price) * 100, entry_price)

Sell(reason, position) ==
    LET contracts == Get(position, "contracts", 1)
    IN  [action |-> "sell", reason |-> reason,
         pnl |-> position.current_price * contracts * 100
                 - position.entry_price * contracts * 100]

\* get_exit_signal: the signal, or NoSignal to hold.
get_exit_signal(position) ==
    LET entry_price == Get(position, "entry_price", 0)
        current_price == Get(position, "current_price", 0)
        dte == Get(position, "dte", 0)
        pnl_pct == PnlPct(entry_price, current_price)
    IN  IF entry_price = 0 \/ current_price = 0 THEN NoSignal
        ELSE IF ~FracLt(pnl_pct, Whole(50)) THEN Sell("Profit target reached", position)
        ELSE IF ~FracLt(Whole(0 - 50), pnl_pct) THEN Sell("Stop loss hit", position)
        ELSE IF dte <= 3 /\ FracLt(pnl_pct, Whole(20))
        THEN Sell("Closing before expiration", position)
        ELSE NoSignal

\* ------------------------------------------------------- strategy inputs
MaxCandidates == 2

Clock == {1, 2}

CandidateRow ==
    [symbol |-> "SPY", option_type |-> "call", strike |-> 450,
     expiration |-> "2026-12-18", dte |-> 30, premium |-> 150,
     volume |-> 500, open_interest |-> 500]

EdgeRow ==
    [symbol |-> "SPY", option_type |-> "put", strike |-> 440,
     expiration |-> "2026-11-20", dte |-> 7, premium |-> 200,
     volume |-> 100, open_interest |-> 100]

CandidateRows ==
    {CandidateRow, EdgeRow,
     [CandidateRow EXCEPT !.dte = 45],
     [CandidateRow EXCEPT !.dte = 46],
     [CandidateRow EXCEPT !.dte = 6],
     [CandidateRow EXCEPT !.premium = 201],
     [CandidateRow EXCEPT !.volume = 99],
     [CandidateRow EXCEPT !.open_interest = 99]}

CandidateColumnSets ==
    {DOMAIN CandidateRow, DOMAIN CandidateRow \ {"open_interest"},
     DOMAIN CandidateRow \ {"volume"}}

CandidateTables ==
    {Project([cols |-> DOMAIN CandidateRow, rows |-> s], keep) :
        s \in SeqsUpTo(CandidateRows, MaxCandidates), keep \in CandidateColumnSets}

\* The quotes get_quote builds: price and change_pct present, either null.
Quotes ==
    {[price |-> p, change_pct |-> c] : p \in {Null, 0, 150}, c \in {Null, 0 - 1, 1}}
    \cup {[change_pct |-> 1]}

StrategySnapshots ==
    {[symbol |-> "SPY"], [symbol |-> "SPY", volatility |-> [iv_rank |-> 20]]}
    \cup {[symbol |-> "SPY", quote |-> q] : q \in Quotes}
    \cup {[symbol |-> "SPY", quote |-> q, volatility |-> [iv_rank |-> 20]] :
             q \in {[price |-> 150, change_pct |-> 1]}}

\* Positions with prices in cents.
Positions ==
    {[entry_price |-> e, current_price |-> c, dte |-> d, contracts |-> 1] :
        e \in {0, 100}, c \in {0, 50, 51, 119, 120, 149, 150}, d \in {3, 4}}

BasePosition == [entry_price |-> 100, current_price |-> 150, dte |-> 3, contracts |-> 1]

BaseData ==
    [opportunities |-> [cols |-> DOMAIN CandidateRow, rows |-> <<CandidateRow>>],
     snapshot |-> [symbol |-> "SPY", quote |-> [price |-> 150, change_pct |-> 1]]]

Datas ==
    {[opportunities |-> t, snapshot |-> s] : t \in CandidateTables, s \in StrategySnapshots}
    \cup {[snapshot |-> s] : s \in StrategySnapshots}
    \cup {[opportunities |-> None, snapshot |-> s] : s \in StrategySnapshots}

\* ------------------------------------------------------ strategy actions
\* ret keeps, beside the last call, the last answer of each entry point.
Answered(fn, err, value) ==
    /\ ret' = [fn |-> fn, err |-> err, value |-> value,
               entry |-> IF fn = "get_entry_signal" THEN [err |-> err, value |-> value]
                         ELSE ret.entry,
               exit |-> IF fn = "get_exit_signal" THEN [err |-> err, value |-> value]
                        ELSE ret.exit]
    /\ UNCHANGED <<raw, raw_chain, chain, filtered, view, last, calc>>

Analyze(now) ==
    /\ calc.kind = "strategy"
    /\ LET res == analyze(calc.data, now)
       IN  Answered("analyze", res.err, res.signals)

GetEntrySignal(now) ==
    /\ calc.kind = "strategy"
    /\ LET res == get_entry_signal(calc.data, now)
       IN  Answered("get_entry_signal", res.err, res.signal)

GetExitSignal ==
    /\ calc.kind = "strategy"
    /\ Answered("get_exit_signal", "none", get_exit_signal(calc.position))

\* SingleLegStrategy() with the data and the position its caller holds.
StrategyInit ==
    /\ NoPass
    /\ calc \in {[kind |-> "strategy", data |-> d, position |-> BasePosition] : d \in Datas}
               \cup {[kind |-> "strategy", data |-> BaseData, position |-> p] : p \in Positions}
    /\ ret = [fn |-> "none", err |-> "none", value |-> NoSignal,
              entry |-> NoRet, exit |-> NoRet]

StrategyNext ==
    \/ \E now \in Clock : Analyze(now)
    \/ \E now \in Clock : GetEntrySignal(now)
    \/ GetExitSignal

StrategySpec == StrategyInit /\ [][StrategyNext]_vars

\* ============================================== OptionsScanner.scan_symbol
\* opportunities.sort_values('dte') with the default kind='quicksort': the
\* orders it may return are all those that put dte in ascending order.
DteOrders(rows) ==
    {order \in Permutations(1..Len(rows)) :
        \A k \in 1..(Len(rows) - 1) : rows[order[k]]["dte"] <= rows[order[k + 1]]["dte"]}

Reordered(df, order) == [df EXCEPT !.rows = [k \in 1..Len(df.rows) |-> df.rows[order[k]]]]

\* The frame scan_symbol returns when every step returned: None when no row is left.
Found(df, order) ==
    IF IsEmpty(df) THEN None ELSE Reordered(WithSymbol(df), order)

\* filtered = filtered.filter_by_...(...): the call is made only if the one
\* before returned.
Only(S) == CHOOSE x \in S : TRUE

\* Steps 1 to 3 of scan_symbol: [err, chain].  Only the constructor call on
\* the fetched frame is inside try/except ("caught": scan_symbol returns
\* None); an exception of a filter call leaves scan_symbol.
scan_filters(vendor, min_dte, max_dte, max_premium, option_types) ==
    Only({IF by_volume.err # "none" THEN by_volume ELSE filter_by_oi(by_volume.chain, 100) :
      by_volume \in
        {IF by_type.err # "none" THEN by_type ELSE filter_by_volume(by_type.chain, 100) :
          by_type \in
            {IF by_premium.err # "none" \/ Len(option_types) # 1 THEN by_premium
             ELSE filter_by_type(by_premium.chain, option_types[1]) :
              by_premium \in
                {IF by_dte.err # "none" THEN by_dte
                 ELSE filter_by_premium(by_dte.chain, max_premium) :
                  by_dte \in
                    {IF made.err # "none" THEN [err |-> "caught", chain |-> NoChain]
                     ELSE filter_by_dte(made.chain, min_dte, max_dte) :
                      made \in
                        {IF IsNone(fetched) \/ IsEmpty(fetched)
                         THEN [err |-> "caught", chain |-> NoChain]
                         ELSE OptionsChain(fetched) :
                          fetched \in {IF IsEmpty(vendor) THEN None
                                       ELSE get_options_chain(vendor)}}}}}}})

\* scan_symbol: [err, opportunities]; `order` is the order the final sort
\* came up with.
scan_symbol(vendor, min_dte, max_dte, max_premium, option_types, order) ==
    Only({IF filtered_chain.err = "caught" THEN [err |-> "none", opportunities |-> None]
          ELSE IF filtered_chain.err # "none"
          THEN [err |-> filtered_chain.err, opportunities |-> None]
          ELSE [err |-> "none",
                opportunities |-> Found(to_dataframe(filtered_chain.chain).df, order)] :
            filtered_chain \in
                {scan_filters(vendor, min_dte, max_dte, max_premium, option_types)}})

\* The frame the final sort is applied to, for choosing its order.
ScanLength(vendor, min_dte, max_dte, max_premium, option_types) ==
    Only({IF res.err = "none" /\ ~IsNone(res.opportunities)
          THEN res.opportunities.rows ELSE <<>> :
            res \in {scan_symbol(vendor, min_dte, max_dte, max_premium, option_types,
                                 [k \in 1..(MaxRows + 1) |-> k])}})

OptionTypeLists == {<<"call", "put">>, <<"call">>, <<"PUT">>}

ScanSnapshots ==
    {[symbol |-> "SYM", quote |-> [price |-> p, change_pct |-> 1]] : p \in {0, 150}}

\* ------------------------------------------------------------ scan actions
\* One scan in a run; the entry signal is then asked on what it returned.
ScanSymbol(min_dte, max_dte, max_premium, option_types) ==
    /\ calc.kind = "scanner"
    /\ ret = NoRet
    /\ \E order \in DteOrders(ScanLength(raw, min_dte, max_dte, max_premium, option_types)) :
          \E res \in {scan_symbol(raw, min_dte, max_dte, max_premium, option_types, order)} :
              ret' = [fn |-> "scan_symbol",
                      args |-> <<min_dte, max_dte, max_premium, option_types>>,
                      err |-> res.err, value |-> res.opportunities]
    /\ UNCHANGED <<raw, raw_chain, chain, filtered, view, last, calc>>

\* strategy.get_entry_signal({'opportunities': opportunities, 'snapshot': snapshot})
\* on the frame scan_symbol returned.
EntryOnScan(snapshot, now) ==
    /\ calc.kind = "scanner"
    /\ ret.fn = "scan_symbol" /\ ret.err = "none" /\ ~IsNone(ret.value)
    /\ \E res \in {get_entry_signal([opportunities |-> ret.value, snapshot |-> snapshot], now)} :
          ret' = [fn |-> "get_entry_signal", args |-> ret.args,
                  data |-> [opportunities |-> ret.value, snapshot |-> snapshot],
                  err |-> res.err, value |-> res.signal]
    /\ UNCHANGED <<raw, raw_chain, chain, filtered, view, last, calc>>

\* OptionsScanner(fetcher) with the vendor's tables behind the fetcher.
ScanInit ==
    /\ raw \in RawFrames
    /\ raw_chain = [some |-> FALSE, df |-> EmptyFrame]
    /\ chain = NoObject
    /\ filtered = NoObject
    /\ view = NoView
    /\ last = NoCall
    /\ calc = [kind |-> "scanner"]
    /\ ret = NoRet

ScanNext ==
    \/ \E d \in DteRanges, m \in ScanCeilings, types \in OptionTypeLists :
          ScanSymbol(d[1], d[2], m, types)
    \/ \E snapshot \in ScanSnapshots, now \in Clock : EntryOnScan(snapshot, now)

ScanSpec == ScanInit /\ [][ScanNext]_vars

\* ================================================================ TradeLogger
MaxTrades == 3          \* log_entry calls in one run

MaxSeconds == 2         \* seconds of wall clock the run spans

\* {**a, **b}: the keys of both, b's value where both have the key.
Merge(a, b) ==
    [k \in DOMAIN a \cup DOMAIN b |-> IF k \in DOMAIN b THEN b[k] ELSE a[k]]

TradeDicts == {[symbol |-> "SPY"], [symbol |-> "QQQ"]}

\* The index of the first trade with the id, 0 when no trade has it.
FirstWithId(trades, trade_id) ==
    IF \E i \in 1..Len(trades) : trades[i].trade_id = trade_id
    THEN CHOOSE i \in 1..Len(trades) :
            /\ trades[i].trade_id = trade_id
            /\ \A j \in 1..(i - 1) : trades[j].trade_id # trade_id
    ELSE 0

\* ------------------------------------------------------------ logger actions
\* log_entry: the id is datetime.now() printed to the second, which is
\* calc.now here; the entry is appended and the journal file rewritten.
LogEntry(trade) ==
    /\ calc.kind = "logger"
    /\ Len(calc.trades) < MaxTrades
    /\ LET trade_id == calc.now
           entry == Merge([trade_id |-> trade_id, entry_timestamp |-> calc.now,
                           status |-> "open"], trade)
           trades == Append(calc.trades, entry)
       IN  /\ calc' = [calc EXCEPT !.trades = trades, !.journal_file = trades]
           /\ ret' = [fn |-> "log_entry", args |-> <<trade>>, value |-> trade_id]
    /\ UNCHANGED <<raw, raw_chain, chain, filtered, view, last>>

\* log_exit: the first trade carrying the id is updated and the file
\* rewritten; nothing is done when no trade carries it.
LogExit(trade_id, exit_details) ==
    /\ calc.kind = "logger"
    /\ LET i == FirstWithId(calc.trades, trade_id)
           closed == Merge(Merge(calc.trades[i],
                                 [status |-> "closed", exit_timestamp |-> calc.now]),
                           exit_details)
           trades == [calc.trades EXCEPT ![i] = closed]
       IN  calc' = IF i = 0 THEN calc
                   ELSE [calc EXCEPT !.trades = trades, !.journal_file = trades]
    /\ ret' = [fn |-> "log_exit", args |-> <<trade_id, exit_details>>, value |-> 0]
    /\ UNCHANGED <<raw, raw_chain, chain, filtered, view, last>>

\* A second of wall clock passes between two calls.
Tick ==
    /\ calc.kind = "logger"
    /\ calc.now < MaxSeconds
    /\ calc' = [calc EXCEPT !.now = calc.now + 1]
    /\ UNCHANGED <<raw, raw_chain, chain, filtered, view, last, ret>>

\* TradeLogger(journal_file) on a journal file that does not exist yet.
LoggerInit ==
    /\ NoPass
    /\ calc = [kind |-> "logger", trades |-> <<>>, journal_file |-> <<>>, now |-> 0]
    /\ ret = NoRet

LoggerNext ==
    \/ \E trade \in TradeDicts : LogEntry(trade)
    \/ \E trade_id \in 0..MaxSeconds :
          LogExit(trade_id, [reason |-> "Profit target reached"])
    \/ Tick

LoggerSpec == LoggerInit /\ [][LoggerNext]_vars

\* ================================================================== claims
FilterOps ==
    {"filter_by_dte", "filter_by_premium", "filter_by_volume", "filter_by_oi",
     "filter_by_type"}

\* Whether row r of frame df meets the predicate of filter call `call`; the
\* volume and open-interest filters have no predicate on a frame without the column.
Keeps(call, df, r) ==
    CASE call.op = "filter_by_dte" -> InDteRange(r, call.args[1], call.args[2])
      [] call.op = "filter_by_premium" -> WithinPremium(r, call.args[1])
      [] call.op = "filter_by_volume" ->
            "volume" \in df.cols => Ge(r["volume"], call.args[1])
      [] call.op = "filter_by_oi" ->
            "open_interest" \in df.cols => Ge(r["open_interest"], call.args[1])
      [] call.op = "filter_by_type" -> r["option_type"] = Lower(call.args[1])

\* The rows of a frame, as a set.
Rows(df) == {df.rows[i] : i \in 1..Len(df.rows)}

\* The raw rows normalization is to keep: those whose ask x 100 is positive.
Survivors(raw_data) ==
    SelectSeq(raw_data.rows, LAMBDA r : Gt(Mul(r["ask"], 100), 0))

\* Row p of a normalized table is raw row r, on the columns both carry by name.
SameContract(p, r) ==
    \A c \in (DOMAIN p) \cap (DOMAIN r) : p[c] = r[c]

\* C1: a filter call on a non-empty normalized table none of whose rows meets
\* the filter's predicate returns an empty table and does not raise.
C1_EmptyResultIsNormal ==
    [][(/\ last'.op \in FilterOps
        /\ ~IsEmpty(Ref(last'.self).processed)
        /\ \A r \in Rows(Ref(last'.self).processed) :
              ~Keeps(last', Ref(last'.self).processed, r))
       => (last'.err = "none" /\ IsEmpty(filtered'.processed))]_vars

\* C2: every row of every normalized or filtered table has premium > 0, and the
\* table holds no more rows than its raw table has rows of positive premium
\* (exactly as many right after normalization).
C2_PremiumPositive ==
    /\ \A o \in {chain, filtered} :
          o.live => /\ (\A r \in Rows(o.processed) : Gt(r["premium"], 0))
                    /\ Len(o.processed.rows) <= Len(Survivors(o.raw_data))
    /\ chain.live => Len(chain.processed.rows) = Len(Survivors(chain.raw_data))
    /\ (\A r \in Rows(view.df) : Gt(r["premium"], 0))

\* A raw table with rows of zero, negative or undefined premium was normalized
\* and filtered, and rows are left.
C2_Witness ==
    /\ chain.live /\ filtered.live
    /\ Len(chain.processed.rows) < Len(chain.raw_data.rows)
    /\ ~IsEmpty(filtered.processed)

\* C3: for a non-empty raw table without an open-interest column, normalization
\* does not raise, liquidity_ratio is NaN in every normalized row, and
\* filter_by_oi returns a table with exactly the rows of the table it is applied to.
C3_MissingOiTolerated ==
    [][/\ (/\ last'.op = "OptionsChain"
           /\ last'.self = "raw"
           /\ ~IsEmpty(raw)
           /\ "openInterest" \notin raw.cols)
          => /\ last'.err = "none"
             /\ (\A r \in Rows(chain'.processed) : r["liquidity_ratio"] = NaNRatio)
       /\ (/\ last'.op = "filter_by_oi"
           /\ "openInterest" \notin chain.raw_data.cols)
          => /\ last'.err = "none"
             /\ filtered'.processed.rows = Ref(last'.self).processed.rows]_vars

\* C4: with an open-interest column in the raw table, a normalized row whose
\* open interest is > 0 has liquidity_ratio = volume / open_interest, and
\* liquidity_ratio is NaN only where open interest is not > 0.
C4_LiquidityRatio ==
    (chain.live /\ {"openInterest", "volume"} \subseteq chain.raw_data.cols)
        => \A i \in 1..Len(chain.processed.rows) :
              LET p == chain.processed.rows[i]
                  r == Survivors(chain.raw_data)[i]
              IN  IF Gt(r["openInterest"], 0)
                  THEN p["liquidity_ratio"] = Ratio(r["volume"], r["openInterest"])
                  ELSE p["liquidity_ratio"] = NaNRatio

\* C5: with an implied-volatility column in the raw table, every normalized row
\* has iv_pct = iv x 100 (NaN only where the implied volatility is NaN).
C5_IvPct ==
    (chain.live /\ "impliedVolatility" \in chain.raw_data.cols)
        => \A i \in 1..Len(chain.processed.rows) :
              chain.processed.rows[i]["iv_pct"]
                  = Mul(Survivors(chain.raw_data)[i]["impliedVolatility"], 100)

\* C6: with an open-interest column in the raw table, every row of the table
\* filter_by_oi(m) returns on the normalized chain is a contract whose open
\* interest is at least m.
C6_OiThreshold ==
    [][(/\ last'.op = "filter_by_oi"
        /\ last'.self = "chain"
        /\ last'.err = "none"
        /\ "openInterest" \in chain.raw_data.cols)
       => \A p \in Rows(filtered'.processed) :
             \E i \in 1..Len(chain.raw_data.rows) :
                /\ SameContract(p, chain.raw_data.rows[i])
                /\ Ge(chain.raw_data.rows[i]["openInterest"], last'.args[1])]_vars

\* C7: a non-empty raw table with a last-traded price and no bid/ask columns
\* normalizes without raising, with mid_price = last price and
\* premium = mid_price x 100 in every row.
C7_LastPriceFallback ==
    [][(/\ last'.op = "OptionsChain"
        /\ last'.self = "raw"
        /\ ~IsEmpty(raw)
        /\ "lastPrice" \in raw.cols
        /\ {"bid", "ask"} \cap raw.cols = {})
       => /\ last'.err = "none"
          /\ "mid_price" \in chain'.processed.cols
          /\ \A p \in Rows(chain'.processed) :
                /\ \E i \in 1..Len(raw.rows) :
                      p["mid_price"] = raw.rows[i]["lastPrice"]
                /\ p["premium"] = Mul(p["mid_price"], 100)]_vars

\* C8 as stated: every row of every normalized or filtered table has dte > 0.
C8_DtePositive ==
    \A o \in {chain, filtered} :
        o.live => (\A r \in Rows(o.processed) : r["dte"] > 0)

\* C8 as amended: every row of a table normalized from what get_options_chain
\* returned, and of every table filtered from it, has dte > 0 (the fetcher has
\* dropped the others); so has every row of the fetched frame.
C8_FetchedDtePositive ==
    /\ (\A r \in Rows(raw_chain.df) : r["dte"] > 0)
    /\ \A o \in {chain, filtered} :
          (o.live /\ o.fetched) => (\A r \in Rows(o.processed) : r["dte"] > 0)

\* The fetcher dropped an expired row and the rest was normalized and filtered.
C8_Witness ==
    /\ raw_chain.some
    /\ Len(raw_chain.df.rows) < Len(raw.rows)
    /\ chain.live /\ chain.fetched /\ filtered.live /\ filtered.fetched
    /\ ~IsEmpty(filtered.processed)

\* filter_by_premium first, filter_by_dte on its result.
premium_then_dte(self, min_dte, max_dte, max_premium) ==
    LET first == filter_by_premium(self, max_premium)
    IN  IF first.err # "none" THEN first
        ELSE filter_by_dte(first.chain, min_dte, max_dte)

\* C9: filter_by_dte then filter_by_premium ends as filter_by_premium then
\* filter_by_dte does: the same table, or both orders raise the same error.
C9_DtePremiumCommute ==
    [][last'.op = "scan_filters"
       => LET other == premium_then_dte(chain, last'.args[1], last'.args[2],
                                        last'.args[3])
          IN  /\ last'.err = other.err
              /\ last'.err = "none"
                    => filtered'.processed = other.chain.processed]_vars

\* Both filters ran on a two-row chain under the scanner's selective bounds:
\* one row was dropped and the other came through both.
C9_Witness ==
    /\ last.op = "scan_filters" /\ last.err = "none"
    /\ last.args = <<7, 45, 200>>
    /\ Len(filtered.processed.rows) < Len(chain.processed.rows)

\* C10: no call changes the caller's raw table, the fetched frame, or an
\* OptionsChain that exists: a filter call leaves the chain it is made on as it
\* was, and what the caller does to the frame to_dataframe returned stays there.
C10_SourcesUnchanged ==
    [][/\ raw' = raw
       /\ raw_chain.some => raw_chain' = raw_chain
       /\ chain.live => chain' = chain
       /\ (filtered.live /\ last'.op \notin FilterOps \cup {"scan_filters"})
             => filtered' = filtered]_vars

\* The chain was filtered and the scanner wrote its column into the frame
\* to_dataframe gave it for the filtered chain, which does not show the column.
C10_Witness ==
    /\ view.kind = "opportunities" /\ view.of = "filtered"
    /\ "symbol" \in view.df.cols
    /\ "symbol" \notin filtered.processed.cols
    /\ filtered.op = "scan_filters"
    /\ Len(filtered.processed.rows) < Len(chain.processed.rows)

\* C11: the table filter_by_type returns holds exactly the rows of the table it
\* is applied to whose stored side equals the requested side ignoring case,
\* whatever the casing of either.
C11_TypeIgnoresCase ==
    [][(last'.op = "filter_by_type" /\ last'.err = "none")
       => LET df == Ref(last'.self).processed
          IN  filtered'.processed.rows
                = SelectSeq(df.rows,
                            LAMBDA r : Lower(r["option_type"]) = Lower(last'.args[1]))]_vars

\* C12: the constructor raises ValueError exactly when it is handed None or a
\* table without rows, and then no OptionsChain (no normalized table) comes to be.
C12_EmptyInputRejected ==
    [][last'.op = "OptionsChain"
       => LET given == Argument(last'.self)
          IN  /\ (last'.err = "ValueError") <=> (IsNone(given) \/ Len(given.rows) = 0)
              /\ last'.err = "ValueError" => (chain' = NoObject)]_vars

\* The constructor refused the zero-row frame the fetcher returned for a vendor
\* table all of whose rows had expired.
C12_Witness ==
    /\ last.op = "OptionsChain" /\ last.self = "raw_chain"
    /\ last.err = "ValueError"
    /\ ~IsEmpty(raw) /\ IsEmpty(raw_chain.df)
    /\ ~chain.live

\* C13: calculate_iv_rank returns iv_rank and iv_percentile within [0,100] for
\* every current_iv and history; both are 50 when the rolling-HV series is
\* empty; iv_rank is 50 when the series' maximum equals its minimum; and
\* iv_percentile is the share of the series' values strictly below current_iv.
C13_IvRankBounds ==
    ret.fn = "calculate_iv_rank"
        => LET current_iv == ret.args[1]
               series == DropNa(ILocLast(rolling_hv(calc, ret.args[2]), ret.args[3]))
               iv_rank == ret.value[1]
               iv_percentile == ret.value[2]
               InRange(x) == ~FracLt(x, Whole(0)) /\ ~FracLt(Whole(100), x)
                             /\ ~IsNaNFrac(x)
           IN  /\ InRange(iv_rank) /\ InRange(iv_percentile)
               /\ Len(series) = 0
                    => FracEq(iv_rank, Whole(50)) /\ FracEq(iv_percentile, Whole(50))
               /\ (Len(series) > 0 /\ SeriesMax(series) = SeriesMin(series))
                    => FracEq(iv_rank, Whole(50))
               /\ Len(series) > 0
                    => FracEq(iv_percentile,
                              Frac(100 * Cardinality({i \in 1..Len(series) :
                                                        ~IsNaN(current_iv)
                                                        /\ series[i] < current_iv}),
                                   Len(series)))

\* C14: for every IV rank in [0,100] is_iv_expensive answers: rank > 75 very
\* high with the flag true; rank from 50 to 75 inclusive elevated with the flag
\* false; rank < 50 relatively low with the flag false.
C14_IvExpensiveClasses ==
    (/\ ret.fn = "is_iv_expensive"
     /\ ~IsNaNFrac(ret.value.iv_rank)
     /\ ~FracLt(ret.value.iv_rank, Whole(0))
     /\ ~FracLt(Whole(100), ret.value.iv_rank))
        => LET iv_rank == ret.value.iv_rank
           IN  /\ FracLt(Whole(75), iv_rank)
                    => ret.value.flag /\ ret.value.reason = "IV is very high"
               /\ (~FracLt(iv_rank, Whole(50)) /\ ~FracLt(Whole(75), iv_rank))
                    => ~ret.value.flag /\ ret.value.reason = "IV is elevated"
               /\ FracLt(iv_rank, Whole(50))
                    => ~ret.value.flag /\ ret.value.reason = "IV is relatively low"

\* C15: with dte <= 0 calculate_expected_move returns a move of exactly 0 and
\* both bounds equal to current_price, whatever the price and the volatility;
\* with dte > 0 the bounds are price - move and price + move, and the move is
\* >= 0 when price and volatility are >= 0.
C15_ExpectedMove ==
    ret.fn = "calculate_expected_move"
        => LET current_price == ret.args[1]
               iv == ret.args[2]
               dte == ret.args[3]
               expected_move == ret.value[1]
               lower_bound == ret.value[2]
               upper_bound == ret.value[3]
           IN  /\ dte <= 0
                    => /\ expected_move = Whole(0)
                       /\ lower_bound = ToFrac(current_price)
                       /\ upper_bound = ToFrac(current_price)
               /\ dte > 0
                    => /\ lower_bound = FracSub(ToFrac(current_price), expected_move)
                       /\ upper_bound = FracAdd(ToFrac(current_price), expected_move)
                       /\ (Ge(current_price, 0) /\ Ge(iv, 0))
                            => ~FracLt(expected_move, Whole(0))
                               /\ ~IsNaNFrac(expected_move)

\* Calls were answered on either side of dte = 0: an expired contract at a
\* positive price, or a 30-day contract with a positive move around it.
C15_Witness ==
    /\ ret.fn = "calculate_expected_move"
    /\ ret.args[1] = 100 /\ ret.args[2] = 20
    /\ \/ ret.args[3] = 0 /\ ret.value = <<Whole(0), Whole(100), Whole(100)>>
       \/ /\ ret.args[3] = 30
          /\ FracLt(Whole(0), ret.value[1])
          /\ FracLt(ret.value[2], Whole(100)) /\ FracLt(Whole(100), ret.value[3])

\* The six sub-scores of a scored row.
SubScoreNames ==
    {"iv_rank_score", "liquidity_score", "dte_score", "premium_score",
     "volume_surge_score", "trend_score"}

\* The iv_rank of the snapshot, when it has one.
SnapshotRank ==
    IF "volatility" \in DOMAIN calc.snapshot
       /\ "iv_rank" \in DOMAIN calc.snapshot["volatility"]
    THEN calc.snapshot["volatility"]["iv_rank"]
    ELSE NaN

\* C16: every sub-score score_opportunity produces lies in [0,100] when the
\* snapshot's iv_rank is in [0,100] (or absent), and iv_rank_score lies within
\* 80..100 for every rank below 30.
C16_SubScoresBounded ==
    ret.fn = "score_opportunity"
        => /\ \A c \in SubScoreNames :
                 ret.value[c] >= Points(0) /\ ret.value[c] <= Points(100)
           /\ Gt(30, SnapshotRank)
                 => /\ ret.value["iv_rank_score"] >= Points(80)
                    /\ ret.value["iv_rank_score"] <= Points(100)

\* C17: total_score is the sum of the six sub-scores weighted 0.25, 0.20, 0.15,
\* 0.15, 0.15 and 0.10 and lies in [0,100]; the grade is A exactly when
\* total_score >= 85, B from 70, C from 55, D from 40 and F below
\* (so 90 is A, 60 is C, 50 is D and 30 is F).
C17_TotalAndGrade ==
    /\ ret.fn = "score_opportunity"
        => LET v == ret.value
               total_score == v["total_score"]
           IN  /\ total_score = 25 * v["iv_rank_score"] + 20 * v["liquidity_score"]
                                  + 15 * v["dte_score"] + 15 * v["premium_score"]
                                  + 15 * v["volume_surge_score"] + 10 * v["trend_score"]
               /\ total_score >= 0 /\ total_score <= 100 * WeightedUnit
               /\ (v["grade"] = "A") <=> (total_score >= 85 * WeightedUnit)
               /\ (v["grade"] = "B") <=> (/\ total_score >= 70 * WeightedUnit
                                          /\ total_score < 85 * WeightedUnit)
               /\ (v["grade"] = "C") <=> (/\ total_score >= 55 * WeightedUnit
                                          /\ total_score < 70 * WeightedUnit)
               /\ (v["grade"] = "D") <=> (/\ total_score >= 40 * WeightedUnit
                                          /\ total_score < 55 * WeightedUnit)
               /\ (v["grade"] = "F") <=> (total_score < 40 * WeightedUnit)
    /\ get_grade(90 * WeightedUnit) = "A" /\ get_grade(60 * WeightedUnit) = "C"
    /\ get_grade(50 * WeightedUnit) = "D" /\ get_grade(30 * WeightedUnit) = "F"

\* A liquid, well-priced contract under a low iv_rank was scored and graded A,
\* its iv_rank and liquidity scores being different.
C17_Witness ==
    /\ ret.fn = "score_opportunity"
    /\ ret.value["grade"] = "A"
    /\ ret.value["iv_rank_score"] # ret.value["liquidity_score"]
    /\ ret.value["liquidity_score"] > 0

\* The contract the last score_opportunity call scored.
ScoredRow == calc.opportunities.rows[ret.args[1]]

\* C18: liquidity_score is exactly 0 for a contract with volume < 100 whatever
\* its open interest (missing and nan included) and for a contract with
\* open interest < 100 or missing whatever its volume; for any other contract
\* with a volume and an open interest it is the average of min(100, volume/100)
\* and min(100, open_interest/100).
C18_LiquidityFloor ==
    ret.fn = "score_opportunity"
        => LET volume == ScoredRow["volume"]
               has_oi == "open_interest" \in DOMAIN ScoredRow
               oi == IF has_oi THEN ScoredRow["open_interest"] ELSE 0
               Capped(x) == IF x >= 10000 THEN Points(100) ELSE (x * ScoreUnit) \div 100
           IN  /\ (~IsNaN(volume) /\ volume < 100) => ret.value["liquidity_score"] = 0
               /\ (~IsNaN(oi) /\ oi < 100) => ret.value["liquidity_score"] = 0
               /\ (~IsNaN(volume) /\ ~IsNaN(oi) /\ volume >= 100 /\ oi >= 100)
                    => 2 * ret.value["liquidity_score"] = Capped(volume) + Capped(oi)

\* Scored: a contract of volume 50 with a large open interest (score 0), and a
\* contract above both floors, one of its measures past the cap (score > 0).
C18_Witness ==
    /\ ret.fn = "score_opportunity"
    /\ "open_interest" \in DOMAIN ScoredRow
    /\ \/ /\ ScoredRow["volume"] = 50 /\ ScoredRow["open_interest"] = 20000
          /\ ret.value["liquidity_score"] = 0
       \/ /\ ScoredRow["volume"] = 5000 /\ ScoredRow["open_interest"] = 20000
          /\ ret.value["liquidity_score"] = Points(75)

\* C19: score_dataframe returns every input row exactly once, in descending
\* order of total_score, rows of equal total_score in their input order.
C19_StableDescending ==
    ret.fn = "score_dataframe"
        => LET index == ret.value.index
               rows == ret.value.df.rows
               n == Len(calc.opportunities.rows)
           IN  /\ Len(rows) = n
               /\ n > 0 =>
                    /\ Len(index) = n
                    /\ \A i \in 1..n : \E k \in 1..n : index[k] = i
                    /\ \A k \in 1..n : \A c \in calc.opportunities.cols :
                          rows[k][c] = calc.opportunities.rows[index[k]][c]
                    /\ \A k \in 1..n : \A l \in 1..n :
                          k < l => \/ rows[k]["total_score"] > rows[l]["total_score"]
                                   \/ /\ rows[k]["total_score"] = rows[l]["total_score"]
                                      /\ index[k] < index[l]

\* C20: a RiskCalculator built from a positive account value alone, on the
\* default configuration, answers every long-option query with a TradeRisk;
\* for account value 10,000, premium 1.50 and 1 contract the record has
\* position_size 1, account_risk_pct 1.5, recommended true and no warnings.
C20_DefaultConfigAnswers ==
    (/\ ret.fn = "calculate_long_option_risk"
     /\ calc.default_config
     /\ calc.account_value > 0
     /\ ret.args[1] > 0)
        => /\ ret.err = "none"
           /\ (calc.account_value = 10000 /\ ret.args = <<150, 1>>)
                => /\ ret.value.position_size = 1
                   /\ FracEq(ret.value.account_risk_pct, Frac(3, 2))
                   /\ ret.value.recommended
                   /\ ret.value.warnings = <<>>

\* A long-option risk query was answered with a TradeRisk, for a premium > 0
\* on an account of positive value.
RiskAnswered ==
    /\ ret.fn = "calculate_long_option_risk" /\ ret.err = "none"
    /\ ret.args[1] > 0 /\ calc.account_value > 0

C22_RiskFlags ==
    (/\ ret.fn = "calculate_long_option_risk"
     /\ ret.args[1] > 0 /\ calc.account_value > 0)
        => /\ ret.err = "none"
           /\ LET premium == ret.args[1]
                  contracts == ret.args[2]
                  over_risk == premium * contracts * 100
                                  > calc.config["max_portfolio_risk"] * calc.account_value
                  over_premium == premium > Get(calc.config, "max_premium", 20000)
                  risk == ret.value
              IN  /\ risk.recommended <=> ~over_risk
                  /\ over_risk <=> (\E i \in 1..Len(risk.warnings) :
                                       risk.warnings[i] = "Position risk exceeds max")
                  /\ over_premium <=> (\E i \in 1..Len(risk.warnings) :
                                          risk.warnings[i] = "Premium exceeds max")
                  /\ (~over_risk /\ ~over_premium) <=> (risk.warnings = <<>>)
                  /\ risk.max_loss = premium * contracts
                  /\ risk.max_gain = 3 * risk.max_loss

\* ------------------------------------------------------------------ C23
WithinEntryLimits(row) ==
    /\ row.premium <= 200
    /\ row.dte >= 7 /\ row.dte <= 45
    /\ "volume" \in DOMAIN row /\ row.volume >= 100
    /\ "open_interest" \in DOMAIN row /\ row.open_interest >= 100

QuotePriceAvailable(snapshot) ==
    /\ "quote" \in DOMAIN snapshot
    /\ "price" \in DOMAIN snapshot.quote
    /\ snapshot.quote.price \notin {Null, 0}

Carries(signal, row) ==
    /\ signal.action = "buy"
    /\ signal.option_type = row.option_type
    /\ signal.strike = row.strike
    /\ signal.expiration = row.expiration
    /\ signal.premium = row.premium

\* The table analyze was given, when it was given one.
Candidates ==
    IF "opportunities" \in DOMAIN calc.data /\ ~IsNone(calc.data.opportunities)
    THEN calc.data.opportunities.rows
    ELSE <<>>

\* C23: analyze emits no signal for a candidate with premium > 200, dte
\* outside 7..45, volume < 100 or open interest < 100 (a missing volume or
\* open-interest column counting as below 100), and with a quote price
\* available it emits, in row order, one buy signal for every candidate within
\* the limits, carrying its side, strike, expiration and premium.
C23_EntryLimits ==
    (calc.kind = "strategy" /\ ret.fn = "analyze") =>
        LET eligible == SelectSeq(Candidates, WithinEntryLimits)
        IN  /\ \A i \in 1..Len(ret.value) :
                   \E j \in 1..Len(eligible) : Carries(ret.value[i], eligible[j])
            /\ QuotePriceAvailable(calc.data.snapshot) =>
                   /\ ret.err = "none"
                   /\ Len(ret.value) = Len(eligible)
                   /\ \A i \in 1..Len(eligible) : Carries(ret.value[i], eligible[i])

\* ------------------------------------------------------------------ C24
\* C24: when the quote price is unavailable (no quote in the snapshot, no
\* price in the quote, price 0 or price null), analyze and get_entry_signal
\* return no signal and raise nothing.
C24_NoPriceNoSignal ==
    (/\ calc.kind = "strategy"
     /\ ret.fn \in {"analyze", "get_entry_signal"}
     /\ ~QuotePriceAvailable(calc.data.snapshot)) =>
        /\ ret.err = "none"
        /\ ret.value \in {<<>>, NoSignal}

\* ------------------------------------------------------------------ C25
\* Whether one candidate, evaluated on its own, yields a signal.
Survives(row) ==
    Signalled(evaluate_opportunity(row, calc.data.snapshot, 1))

ExpectedExit(position) ==
    LET gain100 == (position.current_price - position.entry_price) * 100
        entry == position.entry_price
    IN  IF gain100 >= 50 * entry THEN "Profit target reached"
        ELSE IF gain100 <= (0 - 50) * entry THEN "Stop loss hit"
        ELSE IF position.dte <= 3 /\ gain100 < 20 * entry THEN "Closing before expiration"
        ELSE "hold"

\* C26: for a position with entry_price > 0, any current price and any dte,
\* get_exit_signal sells with reason profit target when P&L% >= 50, stop loss
\* when P&L% <= -50, expiration decay when dte <= 3 and -50 < P&L% < 20, and
\* returns no signal otherwise.
C26_ExitThresholds ==
    (/\ calc.kind = "strategy" /\ ret.fn = "get_exit_signal"
     /\ calc.position.entry_price > 0) =>
        IF ExpectedExit(calc.position) = "hold"
        THEN ret.value = NoSignal
        ELSE /\ ~IsNone(ret.value)
             /\ ret.value.action = "sell"
             /\ ret.value.reason = ExpectedExit(calc.position)

\* ------------------------------------------------------------------ C27
\* C27: the strategy is stateless and pure: an entry evaluation returns what
\* the previous entry evaluation of the same table and snapshot returned,
\* every field equal, and an exit evaluation what the previous exit
\* evaluation of the same position returned, whatever was called between.
C27_SameInputsSameSignal ==
    [][calc.kind = "strategy" =>
          /\ (ret'.fn = "get_entry_signal" /\ ret.entry # NoRet) => ret'.entry = ret.entry
          /\ (ret'.fn = "get_exit_signal" /\ ret.exit # NoRet) => ret'.exit = ret.exit]_vars

\* ------------------------------------------------------------------ C28
\* DOMAIN of the rows of the vendor frame that pass every filter of the scan.
PassesScan(r, args) ==
    /\ r["dte"] > 0
    /\ Gt(Mul(r["ask"], 100), 0)
    /\ InDteRange(r, args[1], args[2])
    /\ Le(Mul(r["ask"], 100), args[3])
    /\ Len(args[4]) = 1 => Lower(r["option_type"]) = Lower(args[4][1])
    /\ Ge(r["volume"], 100)
    /\ "openInterest" \in DOMAIN r => Ge(r["openInterest"], 100)

\* C28: scan_symbol raises nothing once the fetched chain normalizes, and
\* returns None when no contract passes the DTE, premium, side, volume and
\* open-interest filters.
C28_NoOpportunitiesIsNone ==
    (/\ calc.kind = "scanner" /\ ret.fn = "scan_symbol"
     /\ ~IsEmpty(raw) /\ OptionsChain(get_options_chain(raw)).err = "none") =>
        /\ ret.err = "none"
        /\ ("ask" \in raw.cols /\ \A r \in Rows(raw) : ~PassesScan(r, ret.args))
              => IsNone(ret.value)

\* ------------------------------------------------------------------ C29
\* A vendor row the Opportunity Filter's thresholds accept.
AcceptableRaw(r) ==
    /\ r["dte"] >= 7 /\ r["dte"] <= 45
    /\ Gt(Mul(r["ask"], 100), 0) /\ Le(Mul(r["ask"], 100), 200)
    /\ Ge(r["volume"], 100)
    /\ Ge(r["openInterest"], 100)

\* C29: when every vendor row has 7 <= dte <= 45, 0 < ask x 100 <= 200,
\* volume >= 100 and openInterest >= 100, the table scan_symbol returns for
\* the thresholds 7, 45 and 200 yields an entry signal under a positive
\* quote price.
C29_FilteredRowsAccepted ==
    (/\ calc.kind = "scanner" /\ ret.fn = "get_entry_signal"
     /\ ret.args[1] = 7 /\ ret.args[2] = 45 /\ ret.args[3] = 200
     /\ {"ask", "openInterest"} \subseteq raw.cols
     /\ \A r \in Rows(raw) : AcceptableRaw(r)
     /\ ret.data.snapshot.quote.price > 0) =>
        /\ ret.err = "none"
        /\ ~IsNone(ret.value)

\* ------------------------------------------------------------------ C30
\* The positions of the trades carrying an id.
WithId(trades, trade_id) == {i \in 1..Len(trades) : trades[i].trade_id = trade_id}

\* C30: every log_entry appends an open trade whose id, the one it returns, no
\* other logged trade carries; log_exit(id) closes the trade carrying id and
\* leaves every other trade as it was, and changes nothing when no trade
\* carries id.
C30_IdsIdentifyTrades ==
    [][calc.kind = "logger" =>
          /\ Len(calc'.trades) = Len(calc.trades) + 1 =>
                /\ ret'.fn = "log_entry"
                /\ calc'.trades[Len(calc'.trades)].status = "open"
                /\ WithId(calc'.trades, ret'.value) = {Len(calc'.trades)}
          /\ (ret'.fn = "log_exit" /\ Len(calc'.trades) = Len(calc.trades)
                 /\ calc'.now = calc.now) =>
                \A i \in 1..Len(calc.trades) :
                    IF calc.trades[i].trade_id = ret'.args[1]
                    THEN calc'.trades[i].status = "closed"
                    ELSE calc'.trades[i] = calc.trades[i]]_vars
====
